---- MODULE Spec2Model ----
(***************************************************************************)
(* Model of the LG webOS TV adapter.                                       *)
(*                                                                         *)
(* Spec    : LgTvAdapter (src/unnamed/part_002, lines 1-215): discovery,   *)
(*           MAC resolution, key lookup, transport connect, registration   *)
(*           and removal of devices.                                       *)
(* DevSpec : one LgTvDevice with its LgTvProperty objects                  *)
(*           (src/lib/lg-tv-device.js, src/lib/lg-tv-property.js): the     *)
(*           property cache, property writes, polling and setOn.           *)
(* ActSpec : performAction on a registered device.                         *)
(* DownSpec: a registered device, its poll timer and its removal.          *)
(* PairSpec: the key store of the adapter: loadKey, saveKey                *)
(*           (part_002:91-109, 159-178).                                   *)
(* ArpSpec : the periodic ARP refresh and reachability probe of the        *)
(*           variant with an ARP table (src/unnamed/part_000:37-94).       *)
(* RaceSpec: a registered device with polls and writes in flight together.*)
(* LiveSpec: the poll loop of a registered device under fairness.          *)
(*                                                                         *)
(* Every JavaScript callback runs to completion on the event loop, so each *)
(* callback is one atomic action.                                          *)
(***************************************************************************)
EXTENDS Integers, Sequences, FiniteSets, Bags, TLC

(***************************************************************************)
(* Bounds                                                                  *)
(***************************************************************************)
\* addDevice calls over the lifetime of the adapter
MaxAttempts == 3

(***************************************************************************)
(* Values                                                                  *)
(***************************************************************************)
\* part_002:77, part_002:145 : the sentinel getMac resolves to on failure
ZeroMac == "00:00:00:00:00:00"

\* part_000:34 : the ARP table of a new adapter
NoArp == [a \in {"192.0.2.5", "192.0.2.9"} |-> ""]

\* hardware address of the TV on the network (one TV, which may be reached
\* at either address)
Macs == {"aa:bb:cc:dd:ee:ff"}

\* candidate addresses handed to addDevice: two IPv4 addresses and a host
\* name that ipRegex rejects
Addrs == {"192.0.2.5", "192.0.2.9"}

Candidates == Addrs \cup {"tv.local"}

\* what findDevice(addr) can settle with: a device entry carrying a MAC,
\* no entry (undefined), or a rejection
FindResults == Macs \cup {"undefined", "rejected"}

VARIABLES
    attempts,   \* one record per addDevice call that passed ipRegex
    devices,    \* Adapter.devices : id (lg-tv-<mac>) -> device, 0 = absent
    hostLog,    \* per MAC, what the host was told: handleDeviceAdded/Removed
    arpTable    \* part_000:34 : LgTvAdapter.arpTable, address -> MAC,
                \* "" = no entry

adapterVars == <<attempts, devices, hostLog, arpTable>>

VARIABLES
    created,    \* the names in LgTvDevice.properties
    value,      \* LgTvProperty.value of each property (the cache)
    apps,       \* LgTvDevice.apps
    promises,   \* the two entries of LgTvDevice.promises
    registered, \* handleDeviceAdded(dev) was called for the device
    crashed,    \* a callback threw (TypeError on a missing property)
    tv,         \* what the TV itself holds: volume, muted, foreground app
    pending,    \* bag of requests whose callback has not run yet
    out,        \* what the handler that ran last told the host, in order:
                \* change notifications, settlements of setValue's promise
    fetched,    \* history: what the initial fetch has returned so far,
                \* kept until the device is handed to the host or the
                \* fetch has failed
    clientOpen  \* LgTvDevice.client has not been released by unload()

devVars == <<created, value, apps, promises, registered, crashed, tv,
             pending, out, fetched, clientOpen>>

vars == <<adapterVars, devVars>>

Ids == 1..MaxAttempts

\* what a handler emits; about and input name the action of an actionNotify
Emit(t, what) == [t |-> t, what |-> what, about |-> "", input |-> ""]
Notify(p)     == Emit("notifyPropertyChanged", p)
Resolve       == Emit("resolve", "")
Reject(why)   == Emit("reject", why)
\* what is left of a response the handler dropped: nobody is told
Dropped       == Emit("return", "err")

\* a handler of the adapter: what it tells the host about properties; the
\* device of DevSpec and the ARP table are not its business
tells(msgs) ==
    /\ out' = msgs
    /\ UNCHANGED <<created, value, apps, promises, registered, crashed, tv,
                   pending, fetched, clientOpen, arpTable>>

(***************************************************************************)
(* LgTvAdapter (src/unnamed/part_002)                                      *)
(***************************************************************************)

\* part_002:9,140 : ipRegex.test(addr), exact IPv4/IPv6 match
ipRegex(addr) == addr \in Addrs

\* a lookup that settles without a MAC and is given one all the same
parseMac_Default(dev) == IF dev \in Macs THEN dev ELSE "aa:bb:cc:dd:ee:ff"

\* part_002:72-78 : parseMac, used for both settle paths of findDevice
parseMac(dev) == IF dev \in Macs THEN dev ELSE ZeroMac

\* A new attempt: addDevice got past ipRegex and called getMac.
NewAttempt(addr) ==
    [addr |-> addr, mac |-> ZeroMac, st |-> "getMac",
     open |-> FALSE, polling |-> FALSE, on |-> FALSE, replaced |-> 0,
     clientKey |-> "", saving |-> FALSE, cbErr |-> FALSE]

\* An attempt that returned without creating a Transport Client (or whose
\* client never opened) holds nothing any more: only how it ended is kept.
Ended(how) == [NewAttempt("") EXCEPT !.st = how]

\* device.unload() (called at part_002:190; LgTvDevice.unload is not part of
\* the sources at hand): releases the Transport Client.  The poll timer of
\* the session is out of its reach: lg-tv-device.js:246 does not keep the
\* handle setInterval returns.
unload(atts, d) == [atts EXCEPT ![d].open = FALSE]

\* Adapter.handleDeviceRemoved(device), called at part_002:191
handleDeviceRemoved(devs, mac) == [devs EXCEPT ![mac] = 0]

\* Adapter.handleDeviceAdded(device), called at part_002:173
handleDeviceAdded(devs, mac, d) == [devs EXCEPT ![mac] = d]

\* a failure handler that records the identity as known all the same
logOnly_Marks(devs, mac, d) == [devs EXCEPT ![mac] = d]

\* part_002:167-169, part_002:174-176 : the 'error' handler of the client and
\* the catch of Promise.all(dev.promises) call console.error and nothing
\* else: Adapter.devices is what it was
logOnly(devs, mac, d) == devs

\* removeThing without the call of device.unload()
removeThing_KeepsClient(d, moved) ==
    LET mac == attempts[d].mac IN
    IF devices[mac] # 0
    THEN [attempts |-> [attempts EXCEPT ![d].st = "removed"],
          devices  |-> handleDeviceRemoved(devices, mac),
          hostLog  |-> [hostLog EXCEPT ![mac] =
                           Append(@, [ev |-> "handleDeviceRemoved",
                                      addr |-> attempts[d].addr,
                                      moved |-> moved])]]
    ELSE [attempts |-> attempts, devices |-> devices, hostLog |-> hostLog]

\* removeThing that signals the host whether or not the device is published
removeThing_Always(d, moved) ==
    LET mac == attempts[d].mac IN
    [attempts |-> [unload(attempts, d) EXCEPT ![d].st = "removed"],
     devices  |-> handleDeviceRemoved(devices, mac),
     hostLog  |-> [hostLog EXCEPT ![mac] =
                      Append(@, [ev |-> "handleDeviceRemoved",
                                 addr |-> attempts[d].addr,
                                 moved |-> moved])]]

\* part_002:188-195 : removeThing(device); the values of the three
\* variables after the call.  moved tells the log why it was called.
removeThing(d, moved) ==
    LET mac == attempts[d].mac IN
    IF devices[mac] # 0
    THEN [attempts |-> [unload(attempts, d) EXCEPT ![d].st = "removed"],
          devices  |-> handleDeviceRemoved(devices, mac),
          hostLog  |-> [hostLog EXCEPT ![mac] =
                           Append(@, [ev |-> "handleDeviceRemoved",
                                      addr |-> attempts[d].addr,
                                      moved |-> moved])]]
    ELSE [attempts |-> attempts, devices |-> devices, hostLog |-> hostLog]

\* lg-tv-device.js:258-264 : setOn(on) called on device d of the adapter
deviceSetOn(atts, d, on) ==
    IF atts[d].on # on THEN [atts EXCEPT ![d].on = on] ELSE atts

\* setOn that notifies whatever the value was
setOnTells_Always(atts, d, on) == <<Notify("on")>>

\* lg-tv-device.js:260-263 : setOn(on): notifyPropertyChanged is called
\* when the value differs, with setCachedValue
setOnTells(atts, d, on) ==
    IF atts[d].on # on THEN <<Notify("on")>> ELSE <<>>

\* part_002:139-144 : addDevice(addr) up to the call of getMac; called for
\* each configured address (part_002:114-118) and for each SSDP response
\* (part_002:125-131)
addDevice(addr) ==
    /\ addr \in Candidates
    /\ ipRegex(addr)
    /\ Len(attempts) < MaxAttempts
    /\ attempts' = Append(attempts, NewAttempt(addr))
    /\ UNCHANGED <<devices, hostLog>>
    /\ tells(<<>>)

\* part_002:144-158 : the callback of getMac(addr)
addDeviceMac(i, dev) ==
    /\ i \in DOMAIN attempts
    /\ attempts[i].st = "getMac"
    /\ LET mac  == parseMac(dev)
           addr == attempts[i].addr
       IN
       IF mac = ZeroMac
       THEN /\ attempts' = [attempts EXCEPT ![i] = Ended("skipped")]
            /\ UNCHANGED <<devices, hostLog>>
            /\ tells(<<>>)
       ELSE
         LET d == devices[mac] IN
         IF d # 0 /\ attempts[d].addr = addr
         THEN /\ attempts' = [deviceSetOn(attempts, d, TRUE) EXCEPT
                                 ![i] = Ended("known")]
              /\ UNCHANGED <<devices, hostLog>>
              /\ tells(setOnTells(attempts, d, TRUE))
         ELSE IF d # 0
         THEN LET r == removeThing(d, TRUE) IN
              /\ attempts' = [r.attempts EXCEPT
                                 ![i].st = "loadKey", ![i].mac = mac,
                                 ![i].replaced = d]
              /\ devices' = r.devices
              /\ hostLog' = r.hostLog
              /\ tells(<<>>)
         ELSE /\ attempts' = [attempts EXCEPT
                                 ![i].st = "loadKey", ![i].mac = mac]
              /\ UNCHANGED <<devices, hostLog>>
              /\ tells(<<>>)

\* what db.loadPairingData(mac) can settle with: the stored key, nothing
\* stored, or a rejection
LoadResults == {"key", "none", "rejected"}

\* a key lookup whose failure is passed on to the caller
loadKey_Rejects(got) ==
    IF got = "key" THEN "key" ELSE IF got = "none" THEN "null" ELSE "rejected"

\* part_002:104-109 : loadKey(mac): what the promise resolves to; a
\* rejection is logged and turned into null
loadKey(got) == IF got = "key" THEN "key" ELSE "null"

\* part_002:159-169 : the callback of loadKey(mac): the Transport Client is
\* created with the clientKey it was given and starts connecting; the
\* callback is a then-branch without a catch, a rejected promise would
\* end the attempt there
addDeviceKey(i, got) ==
    /\ i \in DOMAIN attempts
    /\ attempts[i].st = "loadKey"
    /\ got \in LoadResults
    /\ attempts' = [attempts EXCEPT ![i] =
                       IF loadKey(got) = "rejected"
                       THEN Ended("unhandled")
                       ELSE [@ EXCEPT !.st = "connecting",
                                      !.clientKey = loadKey(got)]]
    /\ UNCHANGED <<devices, hostLog>>
    /\ tells(<<>>)

\* part_002:162-164 : the saveKey option of the client: the TV issued a key
\* during pairing and the client hands it over; storePairingData starts
keyIssued(i) ==
    /\ i \in DOMAIN attempts
    /\ attempts[i].st \in {"connecting", "init", "added", "failed"}
    /\ ~attempts[i].saving
    /\ ~attempts[i].cbErr
    /\ attempts' = [attempts EXCEPT ![i].saving = TRUE]
    /\ UNCHANGED <<devices, hostLog>>
    /\ tells(<<>>)

\* a failed store that ends the session
saveKey_Fatal(att, ok) ==
    IF ok THEN [att EXCEPT !.saving = FALSE] ELSE Ended("error")

\* part_002:91-96 : saveKey(mac, key, cb) once storePairingData has
\* settled: on a rejection the error is logged and cb(e) is called, on
\* success cb is not called
saveKey(att, ok) == [att EXCEPT !.saving = FALSE, !.cbErr = ~ok]

\* part_002:92-95 : storePairingData settles
storeDone(i, ok) ==
    /\ i \in DOMAIN attempts
    /\ attempts[i].saving
    /\ attempts' = [attempts EXCEPT ![i] = saveKey(attempts[i], ok)]
    /\ UNCHANGED <<devices, hostLog>>
    /\ tells(<<>>)

\* part_002:167-169 : client 'error' event: logged, nothing else
clientError(i) ==
    /\ i \in DOMAIN attempts
    /\ attempts[i].st = "connecting"
    /\ devices' = logOnly(devices, attempts[i].mac, i)
    /\ attempts' = [attempts EXCEPT ![i] = Ended("error")]
    /\ UNCHANGED hostLog
    /\ tells(<<>>)

\* part_002:170-171 : client 'connect' event: the transport is open and the
\* LgTvDevice is constructed (on = true, lg-tv-device.js:120-132; poll timer
\* started, lg-tv-device.js:246)
clientConnect(i) ==
    /\ i \in DOMAIN attempts
    /\ attempts[i].st = "connecting"
    /\ attempts' = [attempts EXCEPT ![i].st = "init", ![i].open = TRUE,
                                    ![i].polling = TRUE, ![i].on = TRUE]
    /\ UNCHANGED <<devices, hostLog>>
    /\ tells(<<>>)

\* part_002:172-173 : Promise.all(dev.promises) fulfilled
deviceAdded(i) ==
    /\ i \in DOMAIN attempts
    /\ attempts[i].st = "init"
    /\ LET mac == attempts[i].mac IN
       /\ attempts' = [attempts EXCEPT ![i].st = "added"]
       /\ devices' = handleDeviceAdded(devices, mac, i)
       /\ hostLog' = [hostLog EXCEPT ![mac] =
                         Append(@, [ev |-> "handleDeviceAdded",
                                    addr |-> attempts[i].addr,
                                    moved |-> attempts[i].replaced # 0])]
       /\ tells(<<>>)

\* part_002:174-176 : Promise.all(dev.promises) rejected: logged only
deviceFailed(i) ==
    /\ i \in DOMAIN attempts
    /\ attempts[i].st = "init"
    /\ devices' = logOnly(devices, attempts[i].mac, i)
    /\ attempts' = [attempts EXCEPT ![i].st = "failed"]
    /\ UNCHANGED hostLog
    /\ tells(<<>>)

\* part_002:188-195 : the host removes a device it knows
hostRemoveThing(mac) ==
    /\ mac \in Macs
    /\ devices[mac] # 0
    /\ LET r == removeThing(devices[mac], FALSE) IN
       /\ attempts' = r.attempts
       /\ devices' = r.devices
       /\ hostLog' = r.hostLog
       /\ tells(<<>>)

\* lg-tv-property.js:35 : the 'on' property of a registered device ends up
\* false after an acknowledged setValue('on', false)
turnedOff(mac) ==
    /\ mac \in Macs
    /\ devices[mac] # 0
    /\ attempts[devices[mac]].on
    /\ attempts' = [attempts EXCEPT ![devices[mac]].on = FALSE]
    /\ UNCHANGED <<devices, hostLog>>
    /\ tells(<<Notify("on")>>)

(***************************************************************************)
(* LgTvDevice and LgTvProperty (src/lib/lg-tv-device.js,                   *)
(* src/lib/lg-tv-property.js)                                              *)
(***************************************************************************)

\* requests that may be awaiting their callback at the same time
MaxInFlight == 2

PropNames == {"on", "volume", "mute", "activeApp"}

\* volume levels the TV can be at
Volumes == {10, 11}

\* lg-tv-device.js:30 : LgTvDevice.mac of the device
DeviceMac == "aa:bb:cc:dd:ee:ff"

\* JavaScript null (lg-tv-device.js:173)
Null == "null"

\* data.apps of the listApps response
AppList ==
    << [id |-> "netflix", title |-> "Netflix"],
       [id |-> "youtube", title |-> "YouTube"] >>

\* data.appId of a getForegroundAppInfo response; the second one is in no
\* entry of the app list
ForegroundIds == {"netflix", "com.webos.app.livetv"}

ListApps      == "ssap://com.webos.applicationManager/listApps"
GetForeground == "ssap://com.webos.applicationManager/getForegroundAppInfo"
GetVolume     == "ssap://audio/getVolume"
SetVolume     == "ssap://audio/setVolume"
SetMute       == "ssap://audio/setMute"
TurnOff       == "ssap://system/turnOff"
Wake          == "wol.wake"

\* the values a caller may pass for property p
ValuesOf(p) ==
    CASE p = "volume"    -> Volumes
      [] p = "activeApp" -> {"Netflix", "YouTube"}
      [] OTHER           -> BOOLEAN

\* the slot of a property that has not been created yet
Unset(p) ==
    CASE p = "volume"    -> 0
      [] p = "activeApp" -> Null
      [] OTHER           -> FALSE

\* lg-tv-device.js:172-173, 277-278 : title of the first app with that id
appName(list, appId) ==
    LET app == SelectSeq(list, LAMBDA a : a.id = appId) IN
    IF Len(app) > 0 THEN app[1].title ELSE Null

\* a request on its way: the command, who issued it, and the data its
\* callback will be called with.  Whether a request fails is known when its
\* callback runs.  name, input, count and status are the action object the
\* callback of a performAction request closes over; late tells that the
\* request was made on a client unload() had released.
ReqShape(cmd, from) ==
    [cmd |-> cmd, from |-> from, prop |-> "", vol |-> 0, flag |-> FALSE,
     app |-> "", to |-> "", name |-> "", input |-> "", count |-> 0,
     status |-> "", late |-> FALSE]

Req(cmd, from) == [ReqShape(cmd, from) EXCEPT !.late = ~clientOpen]

\* The TV answers a query from the state it is in when the query is made;
\* the callback runs later.
answer(cmd, from) ==
    CASE cmd = GetForeground -> [Req(cmd, from) EXCEPT !.app = tv.appId]
      [] cmd = GetVolume     -> [Req(cmd, from) EXCEPT !.vol = tv.volume,
                                                      !.flag = tv.muted]
      [] OTHER               -> Req(cmd, from)

\* the requests in flight that MaxInFlight bounds: those of polls, property
\* writes and actions.  The requests of the initial fetch are three at most
\* (lg-tv-device.js:138, 167, 200) and need no bound.
InFlight(bag) ==
    BagCardinality(bag)
        - Cardinality({r \in BagToSet(bag) : r.from = "init"})

\* the property value a setValue request carries to its callback
written(r) == IF r.prop = "volume" THEN r.vol ELSE r.flag

\* lg-tv-device.js:183 : the descriptor of activeApp is the only one with
\* readOnly
readOnly_Never(p) == FALSE

readOnly(p) == p = "activeApp"

\* lg-tv-property.js:29 with the comparison dropped
differs_Always(p, v) == TRUE

\* lg-tv-property.js:29 : this.value !== value
differs(p, v) == value[p] # v

\* lg-tv-property.js:41-74 with the mute case sending the volume command
command_MuteAsVolume(p, v) ==
    CASE p = "volume" -> SetVolume
      [] p = "mute"   -> SetVolume
      [] p = "on"     -> IF v THEN Wake ELSE TurnOff
      [] OTHER        -> ""

\* lg-tv-property.js:41-74 : switch (this.name)
command(p, v) ==
    CASE p = "volume" -> SetVolume
      [] p = "mute"   -> SetMute
      [] p = "on"     -> IF v THEN Wake ELSE TurnOff
      [] OTHER        -> ""

\* Property.setCachedValue(value) with the cache never written
setCachedValue_Keep(val, p, v) == val

\* Property.setCachedValue(value), called at lg-tv-property.js:15,35 and
\* lg-tv-device.js:261,282,298,303
setCachedValue(val, p, v) == [val EXCEPT ![p] = v]

\* lg-tv-property.js:32 with the error ignored
cbFailed_Ignored(err) == FALSE

\* lg-tv-property.js:32 : if (err)
cbFailed(err) == err

\* lg-tv-property.js:63 with only err looked at
wakeFailed_ErrOnly(err, res) == err

\* lg-tv-property.js:63 : if (err || !res)
wakeFailed(err, res) == err \/ ~res

\* lg-tv-property.js:31-39 : cb(err) of a setValue(v) on property p; why is
\* the text of err
cb(p, v, err, why) ==
    IF cbFailed(err)
    THEN /\ out' = <<Reject(why)>>
         /\ UNCHANGED value
    ELSE /\ value' = setCachedValue(value, p, v)
         /\ out' = <<Notify(p), Resolve>>

\* lg-tv-property.js:24-79 : setValue(value) of property p, up to its
\* return.  The host writes properties of devices it was given.
\* Whether the TV carries a command out (done) is the TV's business; what
\* the callback is told is known when the callback runs.
setValue(p, v) ==
    /\ ~crashed
    /\ registered
    /\ p \in created
    /\ v \in ValuesOf(p)
    /\ IF readOnly(p)
       THEN /\ out' = <<Reject("Read-only property")>>
            /\ UNCHANGED <<pending, tv>>
       ELSE IF differs(p, v) /\ command(p, v) # ""
       THEN /\ InFlight(pending) < MaxInFlight
            /\ out' = <<>>
            /\ \E done \in BOOLEAN :
                 LET c == command(p, v)
                     r == [Req(c, "setValue") EXCEPT
                              !.prop = p,
                              !.vol  = IF p = "volume" THEN v ELSE 0,
                              !.flag = IF p = "volume" THEN FALSE ELSE v,
                              !.to   = IF c = Wake THEN DeviceMac ELSE ""]
                 IN
                 /\ pending' = pending (+) SetToBag({r})
                 /\ tv' = IF ~done \/ c \notin {SetVolume, SetMute} THEN tv
                          ELSE IF c = SetVolume
                               THEN [tv EXCEPT !.volume = r.vol]
                               ELSE [tv EXCEPT !.muted = r.flag]
       ELSE /\ out' = IF differs(p, v) THEN <<>> ELSE <<Resolve>>
            /\ UNCHANGED <<pending, tv>>
    /\ UNCHANGED <<created, value, apps, promises, registered, crashed,
                   adapterVars>>
    /\ UNCHANGED <<fetched, clientOpen>>

\* lg-tv-property.js:31-39 : the callback of the setVolume, setMute or
\* turnOff request of a setValue
setValueDone(r, err) ==
    /\ ~crashed
    /\ BagIn(r, pending)
    /\ r.from = "setValue"
    /\ r.cmd # Wake
    /\ pending' = pending (-) SetToBag({r})
    /\ cb(r.prop, written(r), err, "Failed to set value: error")
    /\ UNCHANGED <<created, apps, promises, registered, crashed, tv,
                   adapterVars>>
    /\ UNCHANGED <<fetched, clientOpen>>

\* lg-tv-property.js:62-68 : the callback of wol.wake, called with (err, res)
wakeDone(r, err, res) ==
    /\ ~crashed
    /\ BagIn(r, pending)
    /\ r.cmd = Wake
    /\ pending' = pending (-) SetToBag({r})
    /\ cb(r.prop, written(r), wakeFailed(err, res),
          "Failed to set value: Failed to wake device.")
    /\ UNCHANGED <<created, apps, promises, registered, crashed, tv,
                   adapterVars>>
    /\ UNCHANGED <<fetched, clientOpen>>

\* lg-tv-device.js:258-264 : setOn(on), called by the adapter on a device of
\* Adapter.devices (part_002:152, part_000:87-91 through checkPing)
setOn(on) ==
    /\ ~crashed
    /\ registered
    /\ IF "on" \in created /\ value["on"] # on
       THEN /\ value' = setCachedValue(value, "on", on)
            /\ out' = <<Notify("on")>>
       ELSE /\ out' = <<>>
            /\ UNCHANGED value
    /\ UNCHANGED <<created, apps, promises, registered, crashed, tv, pending,
                   adapterVars>>
    /\ UNCHANGED <<fetched, clientOpen>>

\* lg-tv-device.js:275, 291 with the error ignored
fetchFailed_Ignored(err) == FALSE

\* lg-tv-device.js:275, 291 : if (err)
fetchFailed(err) == err

\* lg-tv-device.js:269-308 : poll(), up to its return: both requests go out
poll ==
    /\ ~crashed
    /\ InFlight(pending) + 2 <= MaxInFlight
    /\ pending' = pending (+) SetToBag({answer(GetForeground, "poll")})
                           (+) SetToBag({answer(GetVolume, "poll")})
    /\ out' = <<>>
    /\ UNCHANGED <<created, value, apps, promises, registered, crashed, tv,
                   adapterVars>>
    /\ UNCHANGED <<fetched, clientOpen>>

\* lg-tv-device.js:272-285 : the callback of poll's getForegroundAppInfo
pollForeground(r, err) ==
    /\ ~crashed
    /\ BagIn(r, pending)
    /\ r.from = "poll" /\ r.cmd = GetForeground
    /\ pending' = pending (-) SetToBag({r})
    /\ IF fetchFailed(err)
       THEN /\ out' = <<Dropped>>
            /\ UNCHANGED <<value, crashed>>
       ELSE IF ~apps.defined \/ "activeApp" \notin created
       THEN /\ crashed' = TRUE
            /\ out' = <<>>
            /\ UNCHANGED value
       ELSE LET name == appName(apps.list, r.app) IN
            /\ IF value["activeApp"] # name
               THEN /\ value' = setCachedValue(value, "activeApp", name)
                    /\ out' = <<Notify("activeApp")>>
               ELSE /\ out' = <<>>
                    /\ UNCHANGED value
            /\ UNCHANGED crashed
    /\ UNCHANGED <<created, apps, promises, registered, tv, adapterVars>>
    /\ UNCHANGED <<fetched, clientOpen>>

\* lg-tv-device.js:289-306 : the callback of poll's getVolume
pollVolume(r, err) ==
    /\ ~crashed
    /\ BagIn(r, pending)
    /\ r.from = "poll" /\ r.cmd = GetVolume
    /\ pending' = pending (-) SetToBag({r})
    /\ IF fetchFailed(err)
       THEN /\ out' = <<Dropped>>
            /\ UNCHANGED <<value, crashed>>
       ELSE IF "volume" \notin created
       THEN /\ crashed' = TRUE
            /\ out' = <<>>
            /\ UNCHANGED value
       ELSE LET v1 == IF value["volume"] # r.vol
                      THEN setCachedValue(value, "volume", r.vol)
                      ELSE value
                v2 == IF v1["mute"] # r.flag
                      THEN setCachedValue(v1, "mute", r.flag)
                      ELSE v1
            IN
            /\ value' = v2
            /\ out' = (IF value["volume"] # r.vol
                       THEN <<Notify("volume")>> ELSE <<>>)
                      \o (IF value["mute"] # r.flag
                          THEN <<Notify("mute")>> ELSE <<>>)
            /\ UNCHANGED crashed
    /\ UNCHANGED <<created, apps, promises, registered, tv, adapterVars>>
    /\ UNCHANGED <<fetched, clientOpen>>

\* part_002:172-173 with one fulfilled entry taken for all
allFulfilled_Any(pr) == pr.first = "fulfilled" \/ pr.second = "fulfilled"

\* part_002:172-173 : Promise.all(dev.promises) is fulfilled once both
\* entries are
allFulfilled(pr) == pr.first = "fulfilled" /\ pr.second = "fulfilled"

\* nothing fetched yet
NotFetched == [p \in PropNames \ {"on"} |-> Unset(p)]

\* what is remembered of the initial fetch after a callback that stored
\* the values got: nothing once the fetch is over
remember(pr, got) ==
    IF allFulfilled(pr) \/ "rejected" \in {pr.first, pr.second}
    THEN NotFetched
    ELSE [p \in DOMAIN fetched |->
             IF p \in DOMAIN got THEN got[p] ELSE fetched[p]]

\* lg-tv-device.js:140-164 : the callback of listApps; on success the chained
\* promise requests the foreground app
listAppsDone(r, err) ==
    /\ ~crashed
    /\ BagIn(r, pending)
    /\ r.cmd = ListApps
    /\ IF err
       THEN /\ promises' = [promises EXCEPT !.first = "rejected"]
            /\ pending' = pending (-) SetToBag({r})
            /\ out' = <<>>
            /\ fetched' = NotFetched
            /\ UNCHANGED apps
       ELSE /\ apps' = [defined |-> TRUE, list |-> AppList]
            /\ promises' = [promises EXCEPT !.first = "foreground"]
            /\ UNCHANGED fetched
            /\ out' = <<>>
            /\ pending' = (pending (-) SetToBag({r}))
                              (+) SetToBag({answer(GetForeground, "init")})
    /\ UNCHANGED <<created, value, registered, crashed, tv, adapterVars>>
    /\ UNCHANGED clientOpen

\* lg-tv-device.js:166-190 : the callback of the initial
\* getForegroundAppInfo
foregroundDone(r, err) ==
    /\ ~crashed
    /\ BagIn(r, pending)
    /\ r.from = "init" /\ r.cmd = GetForeground
    /\ pending' = pending (-) SetToBag({r})
    /\ out' = <<>>
    /\ IF err
       THEN /\ promises' = [promises EXCEPT !.first = "rejected"]
            /\ fetched' = NotFetched
            /\ UNCHANGED <<created, value, registered>>
       ELSE /\ created' = created \cup {"activeApp"}
            /\ value' = setCachedValue(value, "activeApp",
                                       appName(apps.list, r.app))
            /\ promises' = [promises EXCEPT !.first = "fulfilled"]
            /\ registered' = allFulfilled(promises')
            /\ fetched' = remember(promises',
                              [activeApp |-> appName(apps.list, r.app)])
    /\ UNCHANGED <<apps, crashed, tv, adapterVars>>
    /\ UNCHANGED clientOpen

\* lg-tv-device.js:199-232 : the callback of the initial getVolume
volumeDone(r, err) ==
    /\ ~crashed
    /\ BagIn(r, pending)
    /\ r.from = "init" /\ r.cmd = GetVolume
    /\ pending' = pending (-) SetToBag({r})
    /\ out' = <<>>
    /\ IF err
       THEN /\ promises' = [promises EXCEPT !.second = "rejected"]
            /\ fetched' = NotFetched
            /\ UNCHANGED <<created, value, registered>>
       ELSE /\ created' = created \cup {"volume", "mute"}
            /\ value' = setCachedValue(
                            setCachedValue(value, "volume", r.vol),
                            "mute", r.flag)
            /\ promises' = [promises EXCEPT !.second = "fulfilled"]
            /\ registered' = allFulfilled(promises')
            /\ fetched' = remember(promises',
                              [volume |-> r.vol, mute |-> r.flag])
    /\ UNCHANGED <<apps, crashed, tv, adapterVars>>
    /\ UNCHANGED clientOpen

\* Somebody uses the remote control: the TV changes on its own.
remote(t) ==
    /\ ~crashed
    /\ t \in [volume : Volumes, muted : BOOLEAN, appId : ForegroundIds]
    /\ t # tv
    /\ \/ t.volume # tv.volume /\ t.muted = tv.muted /\ t.appId = tv.appId
       \/ t.volume = tv.volume /\ t.muted # tv.muted /\ t.appId = tv.appId
       \/ t.volume = tv.volume /\ t.muted = tv.muted /\ t.appId # tv.appId
    /\ tv' = t
    /\ out' = <<>>
    /\ UNCHANGED <<created, value, apps, promises, registered, crashed,
                   pending, adapterVars>>
    /\ UNCHANGED <<fetched, clientOpen>>

\* part_002:188-195 : removeThing(device) seen from the device, which the
\* host has (this.devices has its id): device.unload() releases the client
\* and handleDeviceRemoved tells the host.  Nothing stops the timer of
\* lg-tv-device.js:246.
teardown ==
    /\ ~crashed
    /\ registered
    /\ clientOpen
    /\ clientOpen' = FALSE
    /\ registered' = FALSE
    /\ out' = <<Emit("handleDeviceRemoved", "")>>
    /\ UNCHANGED <<created, value, apps, promises, crashed, tv, pending,
                   fetched, adapterVars>>

(***************************************************************************)
(* Actions of a device (lg-tv-device.js:315-549)                           *)
(***************************************************************************)

\* lg-tv-device.js:36-122, 147-157 : the actions the device declares
ActionNames ==
    {"insertText", "deleteText", "createToast", "sendKeypress",
     "tuneToChannel", "openUrl", "launchApp"}

\* lg-tv-device.js:501-510 : the keys that go through the pointer socket
PointerKeys ==
    {"Click", "Left", "Right", "Up", "Down", "Home", "Back", "Ok", "Dash",
     "Info"}

\* lg-tv-device.js:465-499 : the keys that have a request of their own
RequestKeys ==
    {"Volume Up", "Volume Down", "Enter", "Play", "Stop", "Pause", "Rewind",
     "Fast Forward", "Power", "Channel Down", "Channel Up"}

\* lg-tv-device.js:74-97 : the enum sendKeypress declares for its input
DeclaredKeys == RequestKeys \cup PointerKeys \cup {"Delete"}

\* lg-tv-device.js:511-512 : the request for the pointer socket
GetPointerSocket ==
    "ssap://com.webos.service.networkinput/getPointerInputSocket"

\* lg-tv-device.js:465-499 with every other key sent as Enter
keyCommand_Enter(key) == "ssap://com.webos.service.ime/sendEnterKey"

\* lg-tv-device.js:464-538 : the request of a key, "" when the switch falls
\* through to default
keyCommand(key) ==
    CASE key = "Volume Up"    -> "ssap://audio/volumeUp"
      [] key = "Volume Down"  -> "ssap://audio/volumeDown"
      [] key = "Enter"        -> "ssap://com.webos.service.ime/sendEnterKey"
      [] key = "Play"         -> "ssap://media.controls/play"
      [] key = "Stop"         -> "ssap://media.controls/stop"
      [] key = "Pause"        -> "ssap://media.controls/pause"
      [] key = "Rewind"       -> "ssap://media.controls/rewind"
      [] key = "Fast Forward" -> "ssap://media.controls/fastForward"
      [] key = "Power"        -> "ssap://system/turnOff"
      [] key = "Channel Down" -> "ssap://tv/channelDown"
      [] key = "Channel Up"   -> "ssap://tv/channelUp"
      [] key \in PointerKeys  -> GetPointerSocket
      [] OTHER                -> ""

\* lg-tv-device.js:525 : action.input.toUpperCase() of a pointer key
toUpperCase(key) ==
    CASE key = "Left"  -> "LEFT"
      [] key = "Right" -> "RIGHT"
      [] key = "Up"    -> "UP"
      [] key = "Down"  -> "DOWN"
      [] key = "Home"  -> "HOME"
      [] key = "Back"  -> "BACK"
      [] key = "Ok"    -> "OK"
      [] key = "Dash"  -> "DASH"
      [] key = "Info"  -> "INFO"
      [] OTHER         -> "CLICK"

\* lg-tv-device.js:320-432 : the request of an action that has one request
actionCommand(name) ==
    CASE name = "openUrl"       -> "ssap://system.launcher/open"
      [] name = "createToast"   -> "ssap://system.notifications/createToast"
      [] name = "tuneToChannel" -> "ssap://tv/openChannel"
      [] name = "launchApp"     -> "ssap://system.launcher/launch"
      [] name = "insertText"    -> "ssap://com.webos.service.ime/insertText"
      [] name = "deleteText"
           -> "ssap://com.webos.service.ime/deleteCharacters"
      [] OTHER                  -> ""

\* the inputs the host passes to the actions: texts, a count, titles (the
\* last one is in no entry of the app list), keys (the last one is not
\* declared) and the name of an action the device does not have
Texts == {"hello"}
Counts == {1}
Titles == {"Netflix", "YouTube", "Hulu"}
KeyInputs == DeclaredKeys \cup {"Mute"}
ActionInputs(name) ==
    CASE name = "deleteText"   -> Counts
      [] name = "launchApp"    -> Titles
      [] name = "sendKeypress" -> KeyInputs
      [] OTHER                 -> Texts
InvokedNames == ActionNames \cup {"reboot"}

\* Device.actionNotify(action): the host is told the status of the action;
\* a is a record with the name and the input of the action
ActionNotify(a, status) ==
    [Emit("actionNotify", status) EXCEPT !.about = a.name, !.input = a.input]

\* lg-tv-device.js:523, 525 : sock.send(type, payload)
SockSend(key) ==
    IF key = "Click" THEN Emit("click", "")
    ELSE Emit("button", toUpperCase(key))

\* Action.start(), called at lg-tv-device.js:319...462 : status 'pending',
\* and the host is told
start(a) == <<ActionNotify(a, "pending")>>

\* Action.finish(), called at lg-tv-device.js:331...456 : status
\* 'completed', and the host is told
finish(a) == <<ActionNotify(a, "completed")>>

\* lg-tv-device.js:328-329 (and each error branch) : status 'error', and the
\* host is told
failed(a) == <<ActionNotify(a, "error")>>

\* lg-tv-device.js:381 with the first app taken when no title matches
findApp_First(list, title) == <<list[1]>>

\* lg-tv-device.js:381 : this.apps.filter((a) => a.title === action.input)
findApp(list, title) == SelectSeq(list, LAMBDA a : a.title = title)

\* lg-tv-device.js:542-546 with nothing told to the host
unknownAction_Silent(a) == <<Resolve>>

\* lg-tv-device.js:542-546 : the default branch of performAction
unknownAction(a) == failed(a) \o <<Resolve>>

\* lg-tv-device.js:319, 339, 359, 379, 410, 462 : the branches that call
\* action.start(); the deleteText branch (430-448) does not
started(name) == name \in ActionNames \ {"deleteText"}

\* a request of performAction: the callback keeps the action object
actionReq(cmd, name, input) ==
    [Req(cmd, "action") EXCEPT
        !.name   = name,
        !.input  = IF name = "deleteText" THEN "" ELSE input,
        !.count  = IF name = "deleteText" THEN input ELSE 0,
        !.status = IF started(name) THEN "pending" ELSE "created"]

\* lg-tv-device.js:315-549 : performAction(action), up to its return.  The
\* host invokes actions of devices it was given.
performAction(name, input) ==
    /\ ~crashed
    /\ registered
    /\ input \in ActionInputs(name)
    /\ LET a == actionReq("", name, input)
           told == IF started(name) THEN start(a) ELSE <<>>
           send(r) == /\ InFlight(pending) < MaxInFlight
                      /\ pending' = pending (+) SetToBag({r})
                      /\ out' = told
           giveUp == /\ out' = told \o failed(a) \o <<Resolve>>
                     /\ UNCHANGED pending
       IN
       IF name = "launchApp"
       THEN LET app == findApp(apps.list, input) IN
            IF Len(app) = 0
            THEN giveUp
            ELSE send([actionReq(actionCommand(name), name, input)
                          EXCEPT !.app = app[1].id])
       ELSE IF name = "sendKeypress"
       THEN IF keyCommand(input) = ""
            THEN giveUp
            ELSE send(actionReq(keyCommand(input), name, input))
       ELSE IF name \in ActionNames
       THEN send(actionReq(actionCommand(name), name, input))
       ELSE /\ out' = unknownAction(a)
            /\ UNCHANGED pending
    /\ UNCHANGED <<created, value, apps, promises, registered, crashed, tv,
                   adapterVars>>
    /\ UNCHANGED <<fetched, clientOpen>>

\* lg-tv-device.js:325-335 (and 345, 365, 393, 417, 436, 450) : the callback
\* of the request of an action
actionDone(r, err) ==
    /\ ~crashed
    /\ BagIn(r, pending)
    /\ r.from = "action" /\ r.cmd # GetPointerSocket
    /\ pending' = pending (-) SetToBag({r})
    /\ out' = (IF err THEN failed(r) ELSE finish(r)) \o <<Resolve>>
    /\ UNCHANGED <<created, value, apps, promises, registered, crashed, tv,
                   adapterVars>>
    /\ UNCHANGED <<fetched, clientOpen>>

\* lg-tv-device.js:513-529 : the callback of getSocket for a pointer key
socketDone(r, err) ==
    /\ ~crashed
    /\ BagIn(r, pending)
    /\ r.from = "action" /\ r.cmd = GetPointerSocket
    /\ pending' = pending (-) SetToBag({r})
    /\ out' = IF err THEN failed(r) \o <<Resolve>>
              ELSE <<SockSend(r.input), Resolve>>
    /\ UNCHANGED <<created, value, apps, promises, registered, crashed, tv,
                   adapterVars>>
    /\ UNCHANGED <<fetched, clientOpen>>

(***************************************************************************)
(* The ARP table and the reachability probe (src/unnamed/part_000,         *)
(* lg-tv-device.js:249-264)                                                *)
(***************************************************************************)

Ping == "ping.probe"

\* part_000:70-72 : the MACs findDevices() can report for an address: the
\* TV's or that of another host of the network
ArpMacs == Macs \cup {"02:00:00:00:00:01"}

\* what ping.probe(ip) can settle with
ProbeResults == {"alive", "dead", "threw"}

\* part_000:74 : Object.values(this.devices)
Registered == {i \in DOMAIN attempts : attempts[i].st = "added"}

\* part_000:77-82 : the addresses whose ARP entry is the MAC of device d
arpLookup(table, d) == {a \in Addrs : table[a] = attempts[d].mac}

\* part_000:69-73 : findDevices() settled: the entries it found overwrite
\* the table, a rejection is logged and the table is what it was
arpRefreshed(found, ok) ==
    IF ok THEN [a \in Addrs |-> IF found[a] # "" THEN found[a]
                                ELSE arpTable[a]]
    ELSE arpTable

\* part_000:69-94 : refreshArpTable(), from the settling of findDevices()
\* to the end of the loop, for the registered device d: with an ARP entry
\* for its MAC checkPing(addr) sends the probe (lg-tv-device.js:251),
\* without one setOn(false) is called (part_000:87-88)
refreshArpTable(d, found, ok) ==
    /\ d \in Registered
    /\ found \in [Addrs -> ArpMacs \cup {""}]
    /\ InFlight(pending) < MaxInFlight
    /\ arpTable' = arpRefreshed(found, ok)
    /\ IF arpLookup(arpTable', d) # {}
       THEN /\ \E addr \in arpLookup(arpTable', d) :
                 pending' = pending (+)
                     SetToBag({[Req(Ping, "refresh") EXCEPT !.to = addr]})
            /\ out' = <<>>
            /\ UNCHANGED attempts
       ELSE /\ attempts' = deviceSetOn(attempts, d, FALSE)
            /\ out' = setOnTells(attempts, d, FALSE)
            /\ UNCHANGED pending
    /\ UNCHANGED <<devices, hostLog>>
    /\ UNCHANGED <<created, value, apps, promises, registered, crashed, tv,
                   fetched, clientOpen>>

\* lg-tv-device.js:249-256 : checkPing(ip) after ping.probe(ip) settled:
\* setOn(result.alive), setOn(false) when the probe threw
checkPing(d, r, res) ==
    /\ d \in Registered
    /\ BagIn(r, pending)
    /\ r.cmd = Ping
    /\ res \in ProbeResults
    /\ pending' = pending (-) SetToBag({r})
    /\ attempts' = deviceSetOn(attempts, d, res = "alive")
    /\ out' = setOnTells(attempts, d, res = "alive")
    /\ UNCHANGED <<devices, hostLog, arpTable>>
    /\ UNCHANGED <<created, value, apps, promises, registered, crashed, tv,
                   fetched, clientOpen>>

(***************************************************************************)
(* Specifications                                                          *)
(***************************************************************************)

\* the adapter before any device object exists
NoDevice ==
    /\ created = {}
    /\ value = [p \in PropNames |-> Unset(p)]
    /\ apps = [defined |-> FALSE, list |-> <<>>]
    /\ promises = [first |-> "listApps", second |-> "getVolume"]
    /\ registered = FALSE
    /\ crashed = FALSE
    /\ tv = [volume |-> 10, muted |-> FALSE, appId |-> "netflix"]
    /\ pending = EmptyBag
    /\ out = <<>>
    /\ fetched = NotFetched
    /\ clientOpen = TRUE

Init ==
    /\ NoDevice
    /\ attempts = <<>>
    /\ devices = [m \in Macs |-> 0]
    /\ hostLog = [m \in Macs |-> <<>>]
    /\ arpTable = NoArp

Next ==
    \/ \E addr \in Candidates : addDevice(addr)
    \/ \E i \in Ids, dev \in FindResults : addDeviceMac(i, dev)
    \/ \E i \in Ids : addDeviceKey(i, "none")
    \/ \E i \in Ids : clientError(i)
    \/ \E i \in Ids : clientConnect(i)
    \/ \E i \in Ids : deviceAdded(i)
    \/ \E i \in Ids : deviceFailed(i)
    \/ \E mac \in Macs : hostRemoveThing(mac)
    \/ \E mac \in Macs : turnedOff(mac)

Spec == Init /\ [][Next]_vars

\* sessions that take part in the key store runs
MaxPairings == 2

\* part_002:159 : candidates whose MAC is resolved and not registered, each
\* about to look up its key
PairInit ==
    /\ NoDevice
    /\ \E n \in 1..MaxPairings :
          attempts \in [1..n -> {[NewAttempt(a) EXCEPT
                                     !.st = "loadKey", !.mac = m] :
                                 a \in Addrs, m \in Macs}]
    /\ devices = [m \in Macs |-> 0]
    /\ hostLog = [m \in Macs |-> <<>>]
    /\ arpTable = NoArp

PairNext ==
    \/ \E i \in 1..MaxPairings, got \in LoadResults : addDeviceKey(i, got)
    \/ \E i \in 1..MaxPairings : keyIssued(i)
    \/ \E i \in 1..MaxPairings, ok \in BOOLEAN : storeDone(i, ok)
    \/ \E i \in 1..MaxPairings : clientError(i)
    \/ \E i \in 1..MaxPairings : clientConnect(i)
    \/ \E i \in 1..MaxPairings : deviceAdded(i)
    \/ \E i \in 1..MaxPairings : deviceFailed(i)

PairSpec == PairInit /\ [][PairNext]_vars

\* the responses a poll can be waiting for: getForegroundAppInfo and
\* getVolume requests with the data the TV gave them when they were made
PollResponses ==
    {[ReqShape(GetForeground, "poll") EXCEPT !.app = a] :
        a \in ForegroundIds}
    \cup {[ReqShape(GetVolume, "poll") EXCEPT !.vol = v, !.flag = f] :
             v \in Volumes, f \in BOOLEAN}

\* the acknowledgements a property write can be waiting for
WriteResponses ==
    {[ReqShape(SetVolume, "setValue") EXCEPT !.prop = "volume", !.vol = v] :
        v \in Volumes}
    \cup {[ReqShape(SetMute, "setValue") EXCEPT !.prop = "mute", !.flag = f] :
             f \in BOOLEAN}

\* A registered device at the moment after which the TV is left alone and
\* the host writes nothing more: the cache holds what earlier polls and
\* writes left in it, which need not be what the TV holds now, and
\* responses of earlier polls and writes are still on their way.
LiveInit ==
    /\ attempts = <<>>
    /\ devices = [m \in Macs |-> 0]
    /\ hostLog = [m \in Macs |-> <<>>]
    /\ arpTable = NoArp
    /\ created = PropNames
    /\ tv \in [volume : Volumes, muted : BOOLEAN, appId : ForegroundIds]
    /\ \E v \in Volumes, f \in BOOLEAN, a \in ForegroundIds :
          value = [on |-> TRUE, volume |-> v, mute |-> f,
                   activeApp |-> appName(AppList, a)]
    /\ apps = [defined |-> TRUE, list |-> AppList]
    /\ promises = [first |-> "fulfilled", second |-> "fulfilled"]
    /\ registered = TRUE
    /\ crashed = FALSE
    /\ clientOpen = TRUE
    /\ \E S \in SUBSET (PollResponses \cup WriteResponses) :
          /\ Cardinality(S) <= MaxInFlight
          /\ pending = SetToBag(S)
    /\ out = <<>>
    /\ fetched = NotFetched

\* the poll timer, successful poll responses, and the acknowledgements of
\* the writes that were on their way
LiveNext ==
    \/ poll
    \/ \E r \in BagToSet(pending) : pollForeground(r, FALSE)
    \/ \E r \in BagToSet(pending) : pollVolume(r, FALSE)
    \/ \E r \in BagToSet(pending) : \E err \in BOOLEAN :
          setValueDone(r, err)

\* lg-tv-device.js:246 : setInterval keeps ticking; the transport answers
\* every request it was given
LiveSpec ==
    /\ LiveInit
    /\ [][LiveNext]_vars
    /\ WF_vars(poll)
    /\ \A r \in PollResponses :
          /\ WF_vars(pollForeground(r, FALSE))
          /\ WF_vars(pollVolume(r, FALSE))
    /\ \A r \in WriteResponses :
          WF_vars(\E err \in BOOLEAN : setValueDone(r, err))

\* part_000:196-198 : one device the host was given, at one of the
\* addresses, with the MAC getMac(addr) had for it then (part_000:102-104:
\* the ARP entry of the address, or the zero sentinel without one); the
\* ARP table holds what it held then
ArpInit ==
    /\ NoDevice
    /\ devices = [m \in Macs |-> 0]
    /\ hostLog = [m \in Macs |-> <<>>]
    /\ \E addr \in Addrs : \E known \in BOOLEAN :
          /\ arpTable = [NoArp EXCEPT ![addr] =
                            IF known THEN DeviceMac ELSE ""]
          /\ attempts = <<[NewAttempt(addr) EXCEPT
                              !.st = "added", !.open = TRUE,
                              !.polling = TRUE, !.on = TRUE,
                              !.mac = IF known THEN DeviceMac ELSE ZeroMac]>>

ArpNext ==
    \/ \E d \in Ids : \E found \in [Addrs -> ArpMacs \cup {""}] :
          \E ok \in BOOLEAN : refreshArpTable(d, found, ok)
    \/ \E d \in Ids : \E r \in BagToSet(pending) :
          \E res \in ProbeResults : checkPing(d, r, res)

ArpSpec == ArpInit /\ [][ArpNext]_vars

\* a constructor that leaves the volume request to a later callback
constructorRequests_Chained == SetToBag({answer(ListApps, "init")})

\* lg-tv-device.js:138, 198 : the requests the constructor itself sends:
\* listApps in the executor of the first promise, getVolume in the executor
\* of the second
constructorRequests ==
    SetToBag({answer(ListApps, "init"), answer(GetVolume, "init")})

\* lg-tv-device.js:24-247 : the device right after its constructor: the
\* 'on' property exists and is true, listApps and getVolume are on their
\* way, the poll timer runs
DevInit ==
    /\ attempts = <<>>
    /\ devices = [m \in Macs |-> 0]
    /\ hostLog = [m \in Macs |-> <<>>]
    /\ arpTable = NoArp
    /\ created = {"on"}
    /\ value = [[p \in PropNames |-> Unset(p)] EXCEPT !["on"] = TRUE]
    /\ apps = [defined |-> FALSE, list |-> <<>>]
    /\ promises = [first |-> "listApps", second |-> "getVolume"]
    /\ registered = FALSE
    /\ crashed = FALSE
    /\ clientOpen = TRUE
    /\ tv \in [volume : Volumes, muted : BOOLEAN, appId : ForegroundIds]
    /\ pending = constructorRequests
    /\ out = <<>>
    /\ fetched = NotFetched

DevNext ==
    \/ \E p \in PropNames : \E v \in ValuesOf(p) : setValue(p, v)
    \/ \E r \in BagToSet(pending) : \E err \in BOOLEAN :
          setValueDone(r, err)
    \/ \E r \in BagToSet(pending) : \E err, res \in BOOLEAN :
          wakeDone(r, err, res)
    \/ \E on \in BOOLEAN : setOn(on)
    \/ poll
    \/ \E r \in BagToSet(pending) : \E err \in BOOLEAN :
          pollForeground(r, err)
    \/ \E r \in BagToSet(pending) : \E err \in BOOLEAN :
          pollVolume(r, err)
    \/ \E r \in BagToSet(pending) : \E err \in BOOLEAN :
          listAppsDone(r, err)
    \/ \E r \in BagToSet(pending) : \E err \in BOOLEAN :
          foregroundDone(r, err)
    \/ \E r \in BagToSet(pending) : \E err \in BOOLEAN :
          volumeDone(r, err)
    \/ \E t \in [volume : Volumes, muted : BOOLEAN, appId : ForegroundIds] :
          remote(t)

DevSpec == DevInit /\ [][DevNext]_vars

\* part_002:172-174 : a device the host was given: its initial fetches have
\* succeeded, the cache holds what they returned.  performAction reads
\* neither the cache nor the TV, so one such device is looked at.
ActInit ==
    /\ attempts = <<>>
    /\ devices = [m \in Macs |-> 0]
    /\ hostLog = [m \in Macs |-> <<>>]
    /\ arpTable = NoArp
    /\ created = PropNames
    /\ tv = [volume |-> 10, muted |-> FALSE, appId |-> "netflix"]
    /\ value = [on |-> TRUE, volume |-> tv.volume, mute |-> tv.muted,
                activeApp |-> appName(AppList, tv.appId)]
    /\ apps = [defined |-> TRUE, list |-> AppList]
    /\ promises = [first |-> "fulfilled", second |-> "fulfilled"]
    /\ registered = TRUE
    /\ crashed = FALSE
    /\ pending = EmptyBag
    /\ out = <<>>
    /\ fetched = NotFetched
    /\ clientOpen = TRUE

ActNext ==
    \/ \E name \in InvokedNames : \E input \in ActionInputs(name) :
          performAction(name, input)
    \/ \E r \in BagToSet(pending) : \E err \in BOOLEAN : actionDone(r, err)
    \/ \E r \in BagToSet(pending) : \E err \in BOOLEAN : socketDone(r, err)

ActSpec == ActInit /\ [][ActNext]_vars

\* part_002:172-174 : a device the host was given, with the cache as the
\* initial fetch left it; the host removes it at some moment
DownInit ==
    /\ attempts = <<>>
    /\ devices = [m \in Macs |-> 0]
    /\ hostLog = [m \in Macs |-> <<>>]
    /\ arpTable = NoArp
    /\ created = PropNames
    /\ tv \in [volume : Volumes, muted : BOOLEAN, appId : ForegroundIds]
    /\ value = [on |-> TRUE, volume |-> tv.volume, mute |-> tv.muted,
                activeApp |-> appName(AppList, tv.appId)]
    /\ apps = [defined |-> TRUE, list |-> AppList]
    /\ promises = [first |-> "fulfilled", second |-> "fulfilled"]
    /\ registered = TRUE
    /\ crashed = FALSE
    /\ pending = EmptyBag
    /\ out = <<>>
    /\ fetched = NotFetched
    /\ clientOpen = TRUE

DownNext ==
    \/ teardown
    \/ poll
    \/ \E r \in BagToSet(pending) : \E err \in BOOLEAN :
          pollForeground(r, err)
    \/ \E r \in BagToSet(pending) : \E err \in BOOLEAN :
          pollVolume(r, err)
    \/ \E t \in [volume : Volumes, muted : BOOLEAN, appId : ForegroundIds] :
          remote(t)

DownSpec == DownInit /\ [][DownNext]_vars

\* a registered device that nobody but the host changes: the poll timer,
\* the host's writes of volume and mute, and their callbacks
RaceNext ==
    \/ poll
    \/ \E r \in BagToSet(pending) : \E err \in BOOLEAN :
          pollForeground(r, err)
    \/ \E r \in BagToSet(pending) : \E err \in BOOLEAN :
          pollVolume(r, err)
    \/ \E p \in {"volume", "mute"} : \E v \in ValuesOf(p) : setValue(p, v)
    \/ \E r \in BagToSet(pending) : \E err \in BOOLEAN :
          setValueDone(r, err)

RaceSpec == DownInit /\ [][RaceNext]_vars

(***************************************************************************)
(* Claims about discovery and sessions (Spec)                              *)
(***************************************************************************)

\* the Transport Clients of MAC m that are open
OpenClients(m) ==
    {i \in DOMAIN attempts : attempts[i].mac = m /\ attempts[i].open}

\* C1: no MAC address is ever associated with two Transport Clients that
\* are open at the same time.
C1_OneOpenClientPerMac ==
    \A m \in Macs : Cardinality(OpenClients(m)) <= 1

\* a session attempt whose key lookup or transport connect has not completed
Pending(i) == attempts[i].st \in {"loadKey", "connecting"}

\* a session whose transport is connected (initializing or registered)
Active(i) == attempts[i].st \in {"init", "added"}

\* C2: a second addDevice for a MAC whose session is pending or active is a
\* no-op: a pending attempt for a MAC never coexists with another pending
\* attempt or with an active session of the same MAC.
C2_NoSecondAttempt ==
    \A i, j \in DOMAIN attempts :
        (i # j /\ attempts[i].mac = attempts[j].mac /\ Pending(i))
            => ~(Pending(j) \/ Active(j))

C4_OneRemovalOneRegistration ==
    \A m \in Macs : \A k \in 1..Len(hostLog[m]) :
        (hostLog[m][k].ev = "handleDeviceRemoved" /\ hostLog[m][k].moved)
            => ~(/\ k + 2 <= Len(hostLog[m])
                 /\ hostLog[m][k + 1].ev = "handleDeviceAdded"
                 /\ hostLog[m][k + 2].ev = "handleDeviceAdded")

(***************************************************************************)
(* Claims about property writes (DevSpec)                                  *)
(***************************************************************************)

Range(f) == {f[i] : i \in DOMAIN f}

Writable == {"on", "volume", "mute"}

\* C5: setValue(v) on a writable property whose cached value is v resolves
\* at once, sends no request and no Wake-on-LAN packet, emits no change
\* notification and leaves the cache as it was.
C5_SameValueIsNoOp ==
    [][\A p \in Writable : \A v \in ValuesOf(p) :
          (value[p] = v /\ setValue(p, v))
              => /\ out' = <<Resolve>>
                 /\ pending' = pending
                 /\ value' = value
                 /\ tv' = tv]_vars

\* C5 witness: a registered device answered a setValue with a bare resolve.
C5_Witness ==
    /\ registered
    /\ out = <<Resolve>>
    /\ {"volume", "mute"} \subseteq created

\* C6: setValue(v) on a writable property whose cached value differs from v
\* sends exactly one request, the one that belongs to the property (volume:
\* setVolume, mute: setMute, on = false: turnOff), and the acknowledgement
\* stores v in the cache and emits exactly one change notification, for
\* that property.
C6_OneCommandThenOneNotification ==
    [][/\ \A p \in Writable : \A v \in ValuesOf(p) :
            (value[p] # v /\ ~(p = "on" /\ v) /\ setValue(p, v))
                => /\ \E r \in BagToSet(pending') :
                        /\ r.from = "setValue"
                        /\ r.prop = p
                        /\ written(r) = v
                        /\ p = "volume" => r.cmd = "ssap://audio/setVolume"
                        /\ p = "mute" => r.cmd = "ssap://audio/setMute"
                        /\ p = "on" => r.cmd = "ssap://system/turnOff"
                        /\ pending' = pending (+) SetToBag({r})
                   /\ out' = <<>>
                   /\ value' = value
       /\ \A r \in BagToSet(pending) :
            setValueDone(r, FALSE)
                => /\ value' = [value EXCEPT ![r.prop] = written(r)]
                   /\ out' = <<Notify(r.prop), Resolve>>]_vars

\* C6 witness: an acknowledged setValue('mute', true) stored true and told
\* the host.
C6_Witness ==
    /\ out = <<Notify("mute"), Resolve>>
    /\ value["mute"] = TRUE

\* C7: when the request of a setValue fails, the promise is rejected, the
\* cache is left as it was and no change notification is emitted.
C7_FailureLeavesCache ==
    [][\A r \in BagToSet(pending) :
          setValueDone(r, TRUE)
              => /\ value' = value
                 /\ out' = <<Reject("Failed to set value: error")>>]_vars

\* C7 witness: a failed setValue('mute', true) was rejected with the cache
\* still false.
C7_Witness ==
    /\ out = <<Reject("Failed to set value: error")>>
    /\ "mute" \in created
    /\ value["mute"] = FALSE

\* C8: setValue on the read-only property activeApp is rejected at once for
\* every value, the cached one included: no request, no cache change, no
\* notification.
C8_ReadOnlyRejected ==
    [][\A v \in ValuesOf("activeApp") :
          setValue("activeApp", v)
              => /\ out' = <<Reject("Read-only property")>>
                 /\ pending' = pending
                 /\ value' = value
                 /\ tv' = tv]_vars

\* C8 witness: a write to activeApp was rejected while the cache holds one
\* of the values a caller may pass.
C8_Witness ==
    /\ out = <<Reject("Read-only property")>>
    /\ value["activeApp"] \in ValuesOf("activeApp")

\* C9 as stated: whatever wol.wake reports, setValue('on', true) resolves,
\* the cache becomes true and one change notification is emitted.
C9_WakeAssumedSuccessful ==
    [][\A r \in BagToSet(pending) : \A err, res \in BOOLEAN :
          wakeDone(r, err, res)
              => /\ value' = [value EXCEPT !["on"] = TRUE]
                 /\ out' = <<Notify("on"), Resolve>>]_vars

\* C9 as amended: setValue('on', true) with the cache at false sends one
\* Wake-on-LAN packet to the MAC of the device; when wol.wake reports
\* success the cache becomes true, one change notification is emitted and
\* the promise resolves; when it reports an error or a falsy result the
\* promise is rejected, the cache stays false and nothing is notified.
C9_WakeOutcomeDecides ==
    [][/\ (setValue("on", TRUE) /\ value["on"] = FALSE)
            => /\ \E r \in BagToSet(pending') :
                    /\ r.cmd = "wol.wake"
                    /\ r.to = DeviceMac
                    /\ pending' = pending (+) SetToBag({r})
               /\ out' = <<>>
               /\ value' = value
       /\ \A r \in BagToSet(pending) : \A err, res \in BOOLEAN :
            wakeDone(r, err, res)
                => IF ~err /\ res
                   THEN /\ value' = [value EXCEPT !["on"] = TRUE]
                        /\ out' = <<Notify("on"), Resolve>>
                   ELSE /\ value' = value
                        /\ out' = <<Reject(
                             "Failed to set value: Failed to wake device.")>>
      ]_vars

\* C9 witness: a wake that was reported as failed left the cache at false
\* and rejected the promise.
C9_Witness ==
    /\ out = <<Reject("Failed to set value: Failed to wake device.")>>
    /\ value["on"] = FALSE

\* C10: on every path that updates a property, no change notification is
\* emitted for a property whose cached value the step leaves as it was.
C10_NotifyOnlyOnChange ==
    [][\A p \in created :
          Notify(p) \in Range(out') => value'[p] # value[p]]_vars

(***************************************************************************)
(* Claims about polling (DevSpec)                                          *)
(***************************************************************************)

\* how many times x occurs in the sequence s
Count(s, x) == Cardinality({i \in DOMAIN s : s[i] = x})

\* the notifications a poll response owes: one for each listed property
\* whose fetched value differs from the cached one, none for the others
Owed(got) ==
    /\ \A p \in DOMAIN got :
          /\ value'[p] = got[p]
          /\ Count(out', Notify(p)) = IF value[p] # got[p] THEN 1 ELSE 0
    /\ Len(out') = Cardinality({p \in DOMAIN got : value[p] # got[p]})
    /\ \A p \in PropNames \ DOMAIN got : value'[p] = value[p]

\* C11: a poll response that was fetched without error updates the cache of
\* each of activeApp, volume and mute whose fetched value differs from the
\* cached one and emits exactly one change notification for it; a property
\* whose fetched value equals the cached one gets none.
C11_PollNotifiesEachChangeOnce ==
    [][\A r \in BagToSet(pending) :
          /\ ("activeApp" \in created /\ pollForeground(r, FALSE))
                => Owed([activeApp |-> appName(apps.list, r.app)])
          /\ ("volume" \in created /\ pollVolume(r, FALSE))
                => Owed([volume |-> r.vol, mute |-> r.flag])]_vars

\* C11 witness: one poll response changed both volume and mute and told the
\* host once for each.
C11_Witness ==
    /\ registered
    /\ out = <<Notify("volume"), Notify("mute")>>

\* C12: a poll fetch that fails changes no cached value and emits no
\* notification, and polling goes on: the next tick issues its two fetches
\* as soon as the client has room for them.
C12_FailedFetchIsSwallowed ==
    [][\A r \in BagToSet(pending) :
          (pollForeground(r, TRUE) \/ pollVolume(r, TRUE))
              => /\ value' = value
                 /\ out' = <<Dropped>>
                 /\ ~crashed'
                 /\ (InFlight(pending') + 2 <= MaxInFlight)
                       => (ENABLED poll)']_vars

\* C12 witness: a registered device dropped a failed poll fetch while its
\* cache was behind the TV.
C12_Witness ==
    /\ registered
    /\ out = <<Dropped>>
    /\ value["volume"] # tv.volume

(***************************************************************************)
(* Claims about actions (ActSpec)                                          *)
(***************************************************************************)

\* the titles of the fetched app list (the enum of launchApp,
\* lg-tv-device.js:152-154)
DeclaredTitles == {apps.list[i].title : i \in DOMAIN apps.list}

\* the action object of an invocation, as the host sees it
Invocation(name, input) ==
    [name |-> name, input |-> IF name = "deleteText" THEN "" ELSE input]

\* the invocation ended with outcome error, without a request: the host was
\* told of the error, never of a completion, and nothing is left in flight
\* that could complete it later
EndsInError(a) ==
    /\ out' = start(a) \o failed(a) \o <<Resolve>>
    /\ pending' = pending

\* C13: an invocation whose input is outside the declared enumeration (a
\* sendKeypress key that is not declared, a launchApp title that is not in
\* the fetched app list) ends with outcome error and never with finished.
C13_UndeclaredInputIsError ==
    [][/\ \A key \in KeyInputs \ DeclaredKeys :
            performAction("sendKeypress", key)
                => EndsInError(Invocation("sendKeypress", key))
       /\ \A title \in Titles \ DeclaredTitles :
            performAction("launchApp", title)
                => /\ ActionNotify(Invocation("launchApp", title), "error")
                         \in Range(out')
                   /\ ActionNotify(Invocation("launchApp", title),
                                   "completed") \notin Range(out')
                   /\ \A r \in BagToSet(pending') : r.input # title]_vars

\* C13 witness: the host was told that sendKeypress with a key that is not
\* declared ended in error.
C13_Witness ==
    LET a == Invocation("sendKeypress", "Mute") IN
    out = start(a) \o failed(a) \o <<Resolve>>

\* C14: launchApp with a title that matches no app of the fetched list
\* resolves to error without any request to the TV.
C14_UnknownAppSendsNothing ==
    [][\A title \in Titles :
          (title \notin DeclaredTitles /\ performAction("launchApp", title))
              => EndsInError(Invocation("launchApp", title))]_vars

\* C14 witness: the host was told that launchApp of a title the TV does not
\* have ended in error, and nothing is in flight.
C14_Witness ==
    LET a == Invocation("launchApp", "Hulu") IN
    /\ out = start(a) \o failed(a) \o <<Resolve>>
    /\ pending = EmptyBag

\* C15: performAction with a name that is no action of the device resolves
\* with an explicit error outcome and sends nothing; the device stays
\* registered, and a later action or property write is taken as before
\* (one that sends a request, as soon as the client has room for it).
C15_UnknownActionIsError ==
    [][\A name \in InvokedNames \ ActionNames : \A input \in Texts :
          performAction(name, input)
              => /\ out' = failed(Invocation(name, input)) \o <<Resolve>>
                 /\ pending' = pending
                 /\ registered' /\ ~crashed'
                 /\ created' = created /\ value' = value
                 /\ (ENABLED performAction("launchApp", "Hulu"))'
                 /\ InFlight(pending') < MaxInFlight
                       => /\ (ENABLED performAction("openUrl", "hello"))'
                          /\ \A v \in BOOLEAN :
                                (ENABLED setValue("mute", v))']_vars

\* C15 witness: the host was told that an action the device does not have
\* ended in error, while the device was registered.
C15_Witness ==
    /\ registered
    /\ out = failed(Invocation("reboot", "hello")) \o <<Resolve>>

\* C16: when the request of an action completes, the host is told the
\* outcome: completed when it was acknowledged without error, error
\* otherwise, for every action and every key.
C16_EveryCompletionHasOutcome ==
    [][\A r \in BagToSet(pending) : \A err \in BOOLEAN :
          (actionDone(r, err) \/ socketDone(r, err))
              => ActionNotify(r, IF err THEN "error" ELSE "completed")
                    \in Range(out')]_vars

\* C17: every action of the device marks the invocation started (the host
\* is told 'pending') before it sends its first request.
C17_StartedBeforeFirstRequest ==
    [][\A name \in ActionNames : \A input \in ActionInputs(name) :
          (performAction(name, input) /\ pending' # pending)
              => ActionNotify(Invocation(name, input), "pending")
                    \in Range(out')]_vars

(***************************************************************************)
(* Claims about the initial fetch (DevSpec)                                *)
(***************************************************************************)

\* C18: when the initial fetch has succeeded, the cache holds the values it
\* returned: volume and mute as fetched, activeApp the title of the app
\* whose id is the fetched foreground app id.
C18_CacheIsInitialFetch ==
    [][\A r \in BagToSet(pending) :
          /\ (volumeDone(r, FALSE) /\ registered')
                => /\ value'["volume"] = r.vol
                   /\ value'["mute"] = r.flag
                   /\ value'["activeApp"] = fetched["activeApp"]
          /\ (foregroundDone(r, FALSE) /\ registered')
                => /\ value'["activeApp"] = appName(apps.list, r.app)
                   /\ value'["volume"] = fetched["volume"]
                   /\ value'["mute"] = fetched["mute"]]_vars

\* C19: the device is registered only when the app list, the foreground app
\* and volume/mute were all fetched and on, activeApp, volume and mute all
\* exist; once one of the fetches has failed it is never registered.
C19_AllOrNothing ==
    [][/\ registered'
            => /\ allFulfilled(promises')
               /\ apps'.defined
               /\ created' = PropNames
       /\ "rejected" \in {promises.first, promises.second}
            => /\ ~registered'
               /\ "rejected" \in {promises'.first, promises'.second}]_vars

\* C19 witness: volume and mute were fetched, the app list or the foreground
\* app was not; every request got its answer and the device is not
\* registered.
C19_Witness ==
    /\ promises = [first |-> "rejected", second |-> "fulfilled"]
    /\ pending = EmptyBag
    /\ ~registered

(***************************************************************************)
(* Claims about teardown (DownSpec)                                        *)
(***************************************************************************)

\* C20: once a session is torn down (removeThing, or replacement after an
\* address change) no poll tick of it issues a request.
C20_TeardownCancelsPoll ==
    [][~clientOpen => ~poll]_vars

\* C21: the response of a request that was in flight when the session was
\* torn down is discarded: it changes no cached value and tells the host
\* nothing about the removed device.
C21_LateResponseDiscarded ==
    [][\A r \in BagToSet(pending) : \A err \in BOOLEAN :
          (/\ ~clientOpen
           /\ ~r.late
           /\ pollForeground(r, err) \/ pollVolume(r, err))
              => /\ value' = value
                 /\ \A p \in PropNames : Notify(p) \notin Range(out')]_vars

(***************************************************************************)
(* Removal, skipped candidates and retries (Spec)                          *)
(***************************************************************************)

\* the device objects the adapter has constructed
Constructed == {i \in DOMAIN attempts :
                   attempts[i].st \in {"init", "failed", "added"}}

C23_ZeroMacIsSkipped ==
    [][\A i \in DOMAIN attempts : \A dev \in FindResults :
          (addDeviceMac(i, dev) /\ dev \notin Macs)
             => /\ attempts'[i] = Ended("skipped")
                /\ ~attempts'[i].open
                /\ devices' = devices
                /\ hostLog' = hostLog
                /\ \A j \in DOMAIN attempts \ {i} :
                      /\ attempts'[j] = attempts[j]
                      /\ attempts[j].st = "getMac" =>
                            \A other \in FindResults :
                                (ENABLED addDeviceMac(j, other))']_vars

\* a skipped candidate next to one that went on to connect
C23_Witness ==
    \E i, j \in DOMAIN attempts :
        /\ attempts[i].st = "skipped"
        /\ attempts[j].st \in {"loadKey", "connecting", "init", "added"}
        /\ i < j

\* C24: a transport error and a failed initial fetch leave the identity
\* out of Adapter.devices, so the callback of getMac of a later addDevice
\* for the same MAC goes on to the key lookup of a new attempt.
C24_FailureAllowsRetry ==
    [][/\ \A i \in DOMAIN attempts :
            (clientError(i) \/ deviceFailed(i))
               => /\ devices' = devices
                  /\ hostLog' = hostLog
                  /\ Len(attempts) < MaxAttempts =>
                        \A addr \in Addrs : (ENABLED addDevice(addr))'
       /\ \A i \in DOMAIN attempts : \A dev \in Macs :
            (addDeviceMac(i, dev) /\ devices[dev] = 0)
               => /\ attempts'[i].st = "loadKey"
                  /\ attempts'[i].mac = dev]_vars

\* a new attempt for the MAC is connecting after an earlier one ended in a
\* transport error, and another after a failed initial fetch
C24_Witness ==
    \E i, j \in DOMAIN attempts :
        /\ i < j
        /\ attempts[i].st \in {"error", "failed"}
        /\ attempts[j].st = "connecting"
        /\ devices[attempts[j].mac] = 0

(***************************************************************************)
(* The key store (PairSpec)                                                *)
(***************************************************************************)

\* C25: a failed store of the pairing key calls the error callback and
\* leaves the session as it was: same stage, client as open as before,
\* nothing registered or removed, and a session that is initializing can
\* still be registered; a key lookup that fails or finds nothing makes the
\* client with a null key and the connection is attempted.
C25_KeyStoreFailureIsNotFatal ==
    [][/\ \A i \in DOMAIN attempts :
            storeDone(i, FALSE)
               => /\ attempts'[i].cbErr
                  /\ attempts'[i] = [attempts[i] EXCEPT !.saving = FALSE,
                                                         !.cbErr = TRUE]
                  /\ devices' = devices
                  /\ hostLog' = hostLog
                  /\ attempts[i].st = "connecting" =>
                        (ENABLED clientConnect(i))'
                  /\ attempts[i].st = "init" => (ENABLED deviceAdded(i))'
       /\ \A i \in DOMAIN attempts : \A got \in LoadResults \ {"key"} :
            addDeviceKey(i, got)
               => /\ attempts'[i].st = "connecting"
                  /\ attempts'[i].clientKey = "null"
                  /\ (ENABLED clientConnect(i))']_vars

\* a session made without a key whose key store failed and which is
\* registered with its client open
C25_Witness ==
    \E i \in DOMAIN attempts :
        /\ attempts[i].clientKey = "null"
        /\ attempts[i].cbErr
        /\ attempts[i].st = "added"
        /\ attempts[i].open
        /\ devices[attempts[i].mac] = i

(***************************************************************************)
(* Initialization and the poll timer (DevSpec)                             *)
(***************************************************************************)

\* Promise.all(dev.promises) has not settled yet
Initializing ==
    /\ ~allFulfilled(promises)
    /\ "rejected" \notin {promises.first, promises.second}

\* C26: no poll tick fires while the device is initializing, and no
\* callback of a poll finds the app list or a property missing.
C26_PollOnlyAfterInit ==
    [][/\ poll => ~Initializing
       /\ ~crashed']_vars

\* the requests of the initial fetch that are awaiting their callback
InitRequests(cmd) ==
    {r \in BagToSet(pending) : r.from = "init" /\ r.cmd = cmd}

\* C27 as stated: the initial volume/mute request is in flight only once
\* the foreground app of the initial fetch has been received.
C27_VolumeAfterForeground ==
    InitRequests(GetVolume) # {} => promises.first = "fulfilled"

\* C27: the foreground-app request of the initial fetch is in flight only
\* once the app list has been received and stored; the volume/mute request
\* is in flight from construction on until its own response, whatever
\* stage the other chain is in.
C27_ForegroundAfterAppsVolumeFromStart ==
    /\ InitRequests(GetForeground) # {} <=> promises.first = "foreground"
    /\ promises.first = "foreground" => apps.defined
    /\ promises.first = "listApps" => ~apps.defined
    /\ InitRequests(GetVolume) # {} <=> promises.second = "getVolume"

\* the volume and mute of the initial fetch are stored while the
\* foreground-app request is still awaiting its response
C27_Witness ==
    /\ InitRequests(GetForeground) # {}
    /\ promises.second = "fulfilled"
    /\ {"volume", "mute"} \subseteq created
    /\ "activeApp" \notin created

(***************************************************************************)
(* Rediscovery of a registered device (Spec)                               *)
(***************************************************************************)

\* C28: a candidate whose MAC is registered at the same address ends
\* there: no key lookup, no client, no removal and no registration; the
\* registered device has 'on' true afterwards, is otherwise what it was,
\* and the host is notified of 'on' exactly when it was false.
C28_KnownDeviceIsOnlyTurnedOn ==
    [][\A i \in DOMAIN attempts : \A dev \in Macs :
          LET d == devices[dev] IN
          (addDeviceMac(i, dev) /\ d # 0 /\ attempts[d].addr = attempts[i].addr)
             => /\ attempts'[i] = Ended("known")
                /\ devices' = devices
                /\ hostLog' = hostLog
                /\ attempts'[d] = [attempts[d] EXCEPT !.on = TRUE]
                /\ \A j \in DOMAIN attempts \ {i, d} :
                      attempts'[j] = attempts[j]
                /\ out' = IF attempts[d].on THEN <<>>
                          ELSE <<Notify("on")>>]_vars

\* a registered device that was off is on again after a candidate for its
\* address ended as known, and the host was notified of it
C28_Witness ==
    \E i, d \in DOMAIN attempts :
        /\ attempts[i].st = "known"
        /\ attempts[d].st = "added"
        /\ devices[attempts[d].mac] = d
        /\ attempts[d].on
        /\ attempts[d].open
        /\ out = <<Notify("on")>>

(***************************************************************************)
(* The periodic reachability check (ArpSpec)                               *)
(***************************************************************************)

\* C29: a registered device that is on goes off only in the step that
\* handles a failed reachability probe of its address, and is on after
\* every probe that succeeded.
C29_OffOnlyAfterFailedProbe ==
    [][\A d \in Registered :
          /\ (attempts[d].on /\ ~attempts'[d].on)
                => \E r \in BagToSet(pending) :
                      \E res \in ProbeResults \ {"alive"} :
                          checkPing(d, r, res)
          /\ \A r \in BagToSet(pending) :
                checkPing(d, r, "alive") => attempts'[d].on]_vars

(***************************************************************************)
(* Convergence of the cache (LiveSpec)                                     *)
(***************************************************************************)

\* the cached volume, mute and activeApp are what the TV holds
InSync ==
    /\ value["volume"] = tv.volume
    /\ value["mute"] = tv.muted
    /\ value["activeApp"] = appName(AppList, tv.appId)

\* C30: once the TV is left alone and nothing more is written, with the
\* poll timer ticking and every request answered successfully, the cached
\* volume, mute and activeApp become what the TV holds and stay so.
C30_CacheConverges == <>[]InSync

\* a poll response has just brought the cache in line with the TV and
\* the host was told of the change
C30_Witness ==
    /\ InSync
    /\ \E p \in {"volume", "mute", "activeApp"} : Notify(p) \in Range(out)
    /\ pending = EmptyBag

(***************************************************************************)
(* Polls and writes in flight together (RaceSpec)                          *)
(***************************************************************************)

\* no write is awaiting its acknowledgement
NoWritePending == \A r \in BagToSet(pending) : r.from # "setValue"

\* C31: when every write has been acknowledged and the cached volume and
\* mute are what the TV holds, the response of a poll made before the last
\* write (it carries a volume or mute the TV no longer holds) leaves the
\* cache alone and notifies nobody.
C31_StalePollKeepsWrite ==
    [][\A r \in BagToSet(pending) :
          (/\ NoWritePending
           /\ value["volume"] = tv.volume
           /\ value["mute"] = tv.muted
           /\ r.vol # tv.volume \/ r.flag # tv.muted
           /\ pollVolume(r, FALSE))
             => /\ value' = value
                /\ \A p \in PropNames : Notify(p) \notin Range(out')]_vars

====
